---------------------------- MODULE Spec2Model ----------------------------
(***************************************************************************)
(* DipoleMagnetPair (storm_gazebo_ros_magnet): a Gazebo model plugin that  *)
(* applies the dipole-dipole force and torque between two links on every   *)
(* world update and publishes the wrench and the magnetic field over ROS.  *)
(*                                                                         *)
(* Numbers.  Vectors are integer triples.  A computed physical vector is   *)
(* carried exactly as  1e-7 * num / Length^k , Length^2 = L2, in a record  *)
(* [nan, num, L2, k]; nan marks the IEEE not-a-number vector the code      *)
(* produces when it divides by a zero Length.  Orientations are rotations  *)
(* about the z axis by whole quarter turns (0..3).  Simulation time is     *)
(* counted in world iterations, TicksPerSec of them to the second.         *)
(***************************************************************************)
EXTENDS Integers, Sequences, FiniteSets, TLC

VARIABLES
  sdf,                   \* the <plugin> element handed to Load
  ros_initialized,       \* ros::isInitialized()
  phase,                 \* "constructed" | "loaded" | "destroyed"
  link_name,             \* std::pair<std::string, std::string>
  link,                  \* std::pair<physics::LinkPtr, physics::LinkPtr>
  mag,                   \* std::pair<MagnetPtr, MagnetPtr>
  should_publish,        \* bool, indeterminate until Load line 91
  update_rate,           \* double, indeterminate (-1) until Load line 101/104
  last_time,             \* common::Time
  rosnode,               \* ros::NodeHandle*
  callback_queue_thread, \* TRUE once the thread runs QueueThread
  update_connection,     \* TRUE while OnUpdate is connected to WorldUpdateBegin
  connect_count,         \* int
  subscribers,           \* subscribers ROS currently holds on the two topics
  lock,                  \* boost::mutex: "free" or the thread holding it
  pc,                    \* where the simulation thread stands
  simTime,               \* world->SimTime(), in iterations
  loc,                   \* locals of OnUpdate / arguments of the formulas
  res,                   \* force_tmp, torque_tmp, mfs_tmp and evaluation counts
  link_wrench,           \* what AddForce / AddTorque received this iteration
  n_updates,             \* OnUpdate invocations so far
  wrench_msg, mfs_msg,   \* the two message buffers
  pub,                   \* record of publish() calls
  dtor                   \* what the destructor did

vars == <<sdf, ros_initialized, phase, link_name, link, mag, should_publish, update_rate,
          last_time, rosnode, callback_queue_thread, update_connection,
          connect_count, subscribers, lock, pc, simTime, loc, res, link_wrench,
          n_updates, wrench_msg, mfs_msg, pub, dtor>>

plugin_vars == <<phase, link_name, link, mag, should_publish, update_rate, last_time,
                 rosnode, callback_queue_thread, update_connection>>

---------------------------------------------------------------------------
(* Bounds *)

MaxTime == 4
MaxSubs == 2
TicksPerSec == 2
PosMax == 1

---------------------------------------------------------------------------
(* ignition::math::Vector3d *)

Zero == <<0, 0, 0>>

VAdd(a, b) == <<a[1] + b[1], a[2] + b[2], a[3] + b[3]>>

VSub(a, b) == <<a[1] - b[1], a[2] - b[2], a[3] - b[3]>>

VScale(s, a) == <<s * a[1], s * a[2], s * a[3]>>

Dot(a, b) == a[1] * b[1] + a[2] * b[2] + a[3] * b[3]

Cross(a, b) == <<a[2] * b[3] - a[3] * b[2],
                 a[3] * b[1] - a[1] * b[3],
                 a[1] * b[2] - a[2] * b[1]>>

(* ignition::math::Quaterniond, restricted to quarter turns about z *)

QIdentity == 0

QMul(a, b) == (a + b) % 4

QInverse(a) == (4 - a) % 4

RotateVector(q, v) ==
  CASE q = 0 -> v
    [] q = 1 -> <<-v[2], v[1], v[3]>>
    [] q = 2 -> <<-v[1], -v[2], v[3]>>
    [] q = 3 -> <<v[2], -v[1], v[3]>>

RotateVectorReverse(q, v) == RotateVector(QInverse(q), v)

\* Quaterniond(Vector3d rpy): roll and pitch 0, yaw in quarter turns
QuatFromEuler(rpy) == rpy[3] % 4

Pose(p, q) == [pos |-> p, rot |-> q]

IdentityPose == Pose(Zero, QIdentity)

(* Computed vectors: 1e-7 * num / Length^k with Length^2 = L2, or NaN *)

Val(n, l2, kk) == [nan |-> FALSE, num |-> n, L2 |-> l2, k |-> kk]

NaNVal == [nan |-> TRUE, num |-> Zero, L2 |-> 0, k |-> 0]

ZeroVal == Val(Zero, 1, 0)

\* v * (-1)
ValNeg(v) == IF v.nan THEN NaNVal ELSE Val(VScale(-1, v.num), v.L2, v.k)

\* a + b for two vectors on the same scale
ValAdd(a, b) == IF a.nan \/ b.nan THEN NaNVal ELSE Val(VAdd(a.num, b.num), a.L2, a.k)

ValIsZero(v) == ~v.nan /\ v.num = Zero

---------------------------------------------------------------------------
(* The dipole formulas *)

\* GetForceTorque with m2 written for m1 in the second term of line 292
GetForceTorque_SecondTermM2(p_self, m_self, p_other, m_other) ==
  LET p == VSub(p_self.pos, p_other.pos)
      l2 == Dot(p, p)
      m1 == m_other
      m2 == m_self
      fnum == VScale(3,
                VSub(VAdd(VAdd(VScale(l2 * Dot(m1, p), m2),
                               VScale(l2 * Dot(m2, p), m2)),
                          VScale(l2 * Dot(m1, m2), p)),
                     VScale(5 * Dot(m1, p) * Dot(m2, p), p)))
      bnum == VSub(VScale(3 * Dot(m1, p), p), VScale(l2, m1))
  IN IF l2 = 0
       THEN [force |-> NaNVal, torque |-> NaNVal]
       ELSE [force |-> Val(fnum, l2, 7), torque |-> Val(Cross(m2, bnum), l2, 5)]

\* GetForceTorque with the last term of line 293 added instead of subtracted
GetForceTorque_LastTermAdded(p_self, m_self, p_other, m_other) ==
  LET p == VSub(p_self.pos, p_other.pos)
      l2 == Dot(p, p)
      m1 == m_other
      m2 == m_self
      fnum == VScale(3,
                VAdd(VAdd(VAdd(VScale(l2 * Dot(m1, p), m2),
                               VScale(l2 * Dot(m2, p), m1)),
                          VScale(l2 * Dot(m1, m2), p)),
                     VScale(5 * Dot(m1, p) * Dot(m2, p), p)))
      bnum == VSub(VScale(3 * Dot(m1, p), p), VScale(l2, m1))
  IN IF l2 = 0
       THEN [force |-> NaNVal, torque |-> NaNVal]
       ELSE [force |-> Val(fnum, l2, 7), torque |-> Val(Cross(m2, bnum), l2, 5)]

GetForceTorque(p_self, m_self, p_other, m_other) ==
  LET p == VSub(p_self.pos, p_other.pos)
      l2 == Dot(p, p)                     \* p.Length()^2
      m1 == m_other
      m2 == m_self
      \* p_unit = p / Length: every term below is multiplied through by
      \* Length^3, so force = 3e-7 / Length^4 * (...) = 1e-7 * fnum / Length^7
      fnum == VScale(3,
                VSub(VAdd(VAdd(VScale(l2 * Dot(m1, p), m2),
                               VScale(l2 * Dot(m2, p), m1)),
                          VScale(l2 * Dot(m1, m2), p)),
                     VScale(5 * Dot(m1, p) * Dot(m2, p), p)))
      \* B1 = 1e-7 / Length^3 * (3 (m1.p_unit) p_unit - m1) = 1e-7 * bnum / Length^5
      bnum == VSub(VScale(3 * Dot(m1, p), p), VScale(l2, m1))
  IN IF l2 = 0
       THEN [force |-> NaNVal, torque |-> NaNVal]   \* 0/0 in p / p.Length()
       ELSE [force |-> Val(fnum, l2, 7), torque |-> Val(Cross(m2, bnum), l2, 5)]

GetMFS(p_self, p_other, m_other) ==
  LET p == VSub(p_self.pos, p_other.pos)
      l2 == Dot(p, p)
      bnum == VSub(VScale(3 * Dot(m_other, p), p), VScale(l2, m_other))
  IN IF l2 = 0
       THEN NaNVal
       ELSE Val(RotateVectorReverse(p_self.rot, bnum), l2, 5)

---------------------------------------------------------------------------
(* The <plugin> element.  An optional child element is <<>> (absent) or   *)
(* <<value>> (present).                                                    *)

Opt(S) == {<<>>} \cup {<<v>> : v \in S}

HasElement(s, key) == Len(s[key]) > 0

\* sdf::Element::Get<T>(key): the element's value, or T() when there is none
SdfGet(s, key, default) == IF HasElement(s, key) THEN s[key][1] ELSE default

\* the links of the model the plugin is attached to
ModelLinks == {"base", "tip"}

NullLink == "null"

\* physics::Model::GetLink
GetLink(name) == IF name \in ModelLinks THEN name ELSE NullLink

\* DipoleMagnetContainer::Magnet as make_shared<Magnet>() leaves it
DefaultMagnet == [null |-> FALSE, moment |-> Zero, offset |-> IdentityPose]

NullMagnet == [null |-> TRUE, moment |-> Zero, offset |-> IdentityPose]

\* Load without the null check on the child link (lines 86-89)
LoadReturnLine_NoChildLinkCheck(s, rosinit) ==
  IF ~HasElement(s, "parentBodyName") THEN 68
  ELSE IF ~HasElement(s, "childBodyName") THEN 75
  ELSE IF GetLink(s.parentBodyName[1]) = NullLink THEN 83
  ELSE IF SdfGet(s, "shouldPublish", FALSE) /\ ~rosinit THEN 148
  ELSE 173

\* The line at which Load returns: an early return, or the end of the function
LoadReturnLine(s, rosinit) ==
  IF ~HasElement(s, "parentBodyName") THEN 68
  ELSE IF ~HasElement(s, "childBodyName") THEN 75
  ELSE IF GetLink(s.parentBodyName[1]) = NullLink THEN 83
  ELSE IF GetLink(s.childBodyName[1]) = NullLink THEN 88
  ELSE IF SdfGet(s, "shouldPublish", FALSE) /\ ~rosinit THEN 148
  ELSE 173

\* Load, lines 106-112
LoadMoments(s) ==
  [first  |-> SdfGet(s, "parent_dipole_moment", Zero),
   second |-> SdfGet(s, "child_dipole_moment", Zero)]

\* Load, lines 114-130
LoadOffsets(s) ==
  LET pos1 == IF HasElement(s, "parentxyzOffset")
                THEN SdfGet(s, "xyzOffset", Zero) ELSE Zero
      pos2 == IF HasElement(s, "childxyzOffset")
                THEN SdfGet(s, "xyzOffset", Zero) ELSE pos1   \* written to mag.first
      rot1 == IF HasElement(s, "parentrpyOffset")
                THEN QuatFromEuler(SdfGet(s, "rpyOffset", Zero)) ELSE QIdentity
      rot2 == IF HasElement(s, "childrpyOffset")
                THEN QuatFromEuler(SdfGet(s, "rpyOffset", Zero)) ELSE QIdentity
  IN [first |-> Pose(pos2, rot1), second |-> Pose(Zero, rot2)]

Load ==
  /\ phase = "constructed"
  /\ LET r == LoadReturnLine(sdf, ros_initialized)
         sp == SdfGet(sdf, "shouldPublish", FALSE)
         m == LoadMoments(sdf)
         o == LoadOffsets(sdf)
     IN /\ phase' = "loaded"
        /\ link_name' = [first  |-> IF r > 68 THEN sdf.parentBodyName[1] ELSE link_name.first,
                         second |-> IF r > 75 THEN sdf.childBodyName[1] ELSE link_name.second]
        /\ link' = [first  |-> IF r > 75 THEN GetLink(sdf.parentBodyName[1]) ELSE link.first,
                    second |-> IF r > 83 THEN GetLink(sdf.childBodyName[1]) ELSE link.second]
        /\ mag' = IF r > 88
                    THEN [first  |-> [null |-> FALSE, moment |-> m.first, offset |-> o.first],
                          second |-> [null |-> FALSE, moment |-> m.second, offset |-> o.second]]
                    ELSE [first |-> DefaultMagnet, second |-> DefaultMagnet]
        /\ should_publish' = IF r > 88 THEN (IF sp THEN "true" ELSE "false") ELSE should_publish
        /\ update_rate' = IF r > 88 THEN SdfGet(sdf, "updateRate", 0) ELSE update_rate
        /\ rosnode' = IF r = 173 /\ sp THEN "created" ELSE rosnode
        /\ callback_queue_thread' = (r = 173 /\ sp)
        /\ update_connection' = (r = 173)
  /\ UNCHANGED <<sdf, ros_initialized, last_time, connect_count, subscribers, lock, pc,
                 simTime, loc, res, link_wrench, n_updates, wrench_msg, mfs_msg, pub,
                 dtor>>

---------------------------------------------------------------------------
(* The simulation thread: OnUpdate and PublishData *)

Coords == 0..PosMax

\* poses WorldCoGPose() can return
LinkPoses == {Pose(<<x, 0, 0>>, QIdentity) : x \in Coords}

\* OnUpdate, lines 196-198 and 200-202
ResolvePose(body, offset) ==
  Pose(VAdd(body.pos, VScale(-1, RotateVector(body.rot, offset.pos))),
       QMul(body.rot, QInverse(offset.rot)))

OnUpdate ==
  /\ update_connection
  /\ pc = "idle"
  /\ simTime < MaxTime
  /\ \E world \in [ModelLinks -> LinkPoses] :
       LET p_self == ResolvePose(world[link.first], mag.first.offset)
           p_other == ResolvePose(world[link.second], mag.second.offset)
           moment_world == RotateVector(p_self.rot, mag.first.moment)
           m_other == RotateVector(p_other.rot, mag.second.moment)
           ft == GetForceTorque(p_self, moment_world, p_other, m_other)
           mfs_tmp == GetMFS(p_self, p_other, m_other)
       IN /\ loc' = [p_self |-> p_self, m_self |-> moment_world,
                     p_other |-> p_other, m_other |-> m_other]
          /\ res' = [force_tmp |-> ft.force, torque_tmp |-> ft.torque,
                     mfs_tmp |-> mfs_tmp, n_ft |-> 1, n_mfs |-> 1]
          /\ link_wrench' = [first  |-> [force |-> ft.force, torque |-> ft.torque],
                             second |-> [force |-> ValNeg(ft.force),
                                         torque |-> ValNeg(ft.torque)]]
  /\ simTime' = simTime + 1
  /\ n_updates' = n_updates + 1
  /\ pc' = "PublishData"
  /\ UNCHANGED <<sdf, ros_initialized, plugin_vars, connect_count, subscribers, lock,
                 wrench_msg, mfs_msg, pub, dtor>>

\* a world iteration while the plugin's callback is not connected
WorldStep ==
  /\ ~update_connection
  /\ simTime < MaxTime
  /\ simTime' = simTime + 1
  /\ UNCHANGED <<sdf, ros_initialized, plugin_vars, connect_count, subscribers, lock, pc,
                 loc, res, link_wrench, n_updates, wrench_msg, mfs_msg, pub, dtor>>

\* PublishData, lines 239-240: TRUE when the emission is skipped
RateSkips(rate, cur_time, last) == rate > 0 /\ (cur_time - last) * rate < TicksPerSec

\* PublishData, lines 236-241
PublishCheck ==
  /\ pc = "PublishData"
  /\ pc' = IF should_publish = "true" /\ connect_count > 0
             /\ ~RateSkips(update_rate, simTime, last_time)
             THEN "lock" ELSE "idle"
  /\ UNCHANGED <<sdf, ros_initialized, plugin_vars, connect_count, subscribers, lock,
                 simTime, loc, res, link_wrench, n_updates, wrench_msg, mfs_msg, pub, dtor>>

\* PublishData, line 243
PublishLock ==
  /\ pc = "lock"
  /\ lock = "free"
  /\ lock' = "sim"
  /\ pc' = "publish"
  /\ UNCHANGED <<sdf, ros_initialized, plugin_vars, connect_count, subscribers,
                 simTime, loc, res, link_wrench, n_updates, wrench_msg, mfs_msg, pub, dtor>>

\* PublishData, lines 244-268
PublishEmit ==
  /\ pc = "publish"
  /\ wrench_msg' = [frame_id |-> "world", stamp |-> simTime,
                    force |-> res.force_tmp, torque |-> res.torque_tmp]
  /\ mfs_msg' = [frame_id |-> link_name.first, stamp |-> simTime,
                 magnetic_field |-> res.mfs_tmp]
  /\ pub' = [count |-> IF pub.count < 2 THEN pub.count + 1 ELSE 2,
             last |-> simTime, prev |-> pub.last,
             subscribers |-> subscribers]
  /\ pc' = "unlock"
  /\ UNCHANGED <<sdf, ros_initialized, plugin_vars, connect_count, subscribers, lock,
                 simTime, loc, res, link_wrench, n_updates, dtor>>

\* PublishData, line 270
PublishUnlock ==
  /\ pc = "unlock"
  /\ lock' = "free"
  /\ pc' = "idle"
  /\ UNCHANGED <<sdf, ros_initialized, plugin_vars, connect_count, subscribers,
                 simTime, loc, res, link_wrench, n_updates, wrench_msg, mfs_msg, pub, dtor>>

---------------------------------------------------------------------------
(* The callback-queue thread: QueueThread runs the subscription callbacks *)

QueueThreadRuns == rosnode = "created" /\ callback_queue_thread

ConnectCount(n) == n + 1

DisconnectCount(n) == n - 1

Connect ==
  /\ QueueThreadRuns
  /\ subscribers < MaxSubs
  /\ subscribers' = subscribers + 1
  /\ connect_count' = ConnectCount(connect_count)
  /\ UNCHANGED <<sdf, ros_initialized, plugin_vars, lock, pc, simTime, loc, res,
                 link_wrench, n_updates, wrench_msg, mfs_msg, pub, dtor>>

Disconnect ==
  /\ QueueThreadRuns
  /\ subscribers > 0
  /\ subscribers' = subscribers - 1
  /\ connect_count' = DisconnectCount(connect_count)
  /\ UNCHANGED <<sdf, ros_initialized, plugin_vars, lock, pc, simTime, loc, res,
                 link_wrench, n_updates, wrench_msg, mfs_msg, pub, dtor>>

---------------------------------------------------------------------------
(* Destruction *)

\* the values the read of should_publish at line 42 can yield
ReadShouldPublish(sp) == IF sp = "uninit" THEN {TRUE, FALSE} ELSE {sp = "true"}

Destroy ==
  /\ phase \in {"constructed", "loaded"}
  /\ pc = "idle"
  /\ \E sp \in ReadShouldPublish(should_publish) :
       /\ dtor' = [ran |-> TRUE, cleanup |-> sp, rosnode |-> rosnode,
                   thread |-> callback_queue_thread]
       /\ rosnode' = IF ~sp THEN rosnode
                     ELSE IF rosnode = "created" THEN "deleted" ELSE "wild"
       /\ callback_queue_thread' = (callback_queue_thread /\ ~sp)
  /\ update_connection' = FALSE
  /\ phase' = "destroyed"
  /\ UNCHANGED <<sdf, ros_initialized, link_name, link, mag, should_publish, update_rate,
                 last_time, connect_count, subscribers, lock, pc, simTime, loc, res,
                 link_wrench, n_updates, wrench_msg, mfs_msg, pub>>

---------------------------------------------------------------------------
(* Construction and the specifications *)

Rates == {0, 1, 2}

SdfRecord(pn, cn, sp, ur, pm, cm, pxyz, cxyz, xyz, prpy, crpy, rpy) ==
  [parentBodyName |-> pn, childBodyName |-> cn, shouldPublish |-> sp, updateRate |-> ur,
   parent_dipole_moment |-> pm, child_dipole_moment |-> cm,
   parentxyzOffset |-> pxyz, childxyzOffset |-> cxyz, xyzOffset |-> xyz,
   parentrpyOffset |-> prpy, childrpyOffset |-> crpy, rpyOffset |-> rpy]

\* plugin elements for the life-cycle and publishing behaviour
SdfFiles ==
  {SdfRecord(pn, cn, sp, ur, <<<<1, 0, 0>>>>, <<<<1, 0, 0>>>>,
             <<>>, <<>>, <<>>, <<>>, <<>>, <<>>) :
     pn \in Opt({"base", "ghost"}), cn \in Opt({"tip", "base", "ghost"}),
     sp \in Opt(BOOLEAN), ur \in Opt(Rates)}

Constructed ==
  /\ phase = "constructed"
  /\ link_name = [first |-> "", second |-> ""]
  /\ link = [first |-> NullLink, second |-> NullLink]
  /\ mag = [first |-> NullMagnet, second |-> NullMagnet]
  /\ should_publish = "uninit"
  /\ update_rate = -1
  /\ last_time = 0
  /\ rosnode = "uninit"
  /\ callback_queue_thread = FALSE
  /\ update_connection = FALSE
  /\ connect_count = 0
  /\ subscribers = 0
  /\ lock = "free"
  /\ pc = "idle"
  /\ simTime = 0
  /\ res = [force_tmp |-> ZeroVal, torque_tmp |-> ZeroVal, mfs_tmp |-> ZeroVal,
            n_ft |-> 0, n_mfs |-> 0]
  /\ link_wrench = [first  |-> [force |-> ZeroVal, torque |-> ZeroVal],
                    second |-> [force |-> ZeroVal, torque |-> ZeroVal]]
  /\ n_updates = 0
  /\ wrench_msg = [frame_id |-> "", stamp |-> 0, force |-> ZeroVal, torque |-> ZeroVal]
  /\ mfs_msg = [frame_id |-> "", stamp |-> 0, magnetic_field |-> ZeroVal]
  /\ pub = [count |-> 0, last |-> 0, prev |-> 0, subscribers |-> 0]
  /\ dtor = [ran |-> FALSE, cleanup |-> FALSE, rosnode |-> "uninit", thread |-> FALSE]

NoArgs == [p_self |-> IdentityPose, m_self |-> Zero, p_other |-> IdentityPose,
           m_other |-> Zero]

Init ==
  /\ sdf \in SdfFiles
  /\ ros_initialized \in BOOLEAN
  /\ loc = NoArgs
  /\ Constructed

Next ==
  \/ Load
  \/ OnUpdate
  \/ WorldStep
  \/ PublishCheck
  \/ PublishLock
  \/ PublishEmit
  \/ PublishUnlock
  \/ Connect
  \/ Disconnect
  \/ Destroy

Spec == Init /\ [][Next]_vars

\* plugin elements for the offset configuration, on an otherwise valid plugin
SdfOffsetFiles ==
  {SdfRecord(<<"base">>, <<"tip">>, <<TRUE>>, <<>>, <<<<1, 0, 0>>>>, <<<<1, 0, 0>>>>,
             pxyz, cxyz, xyz, <<>>, <<>>, <<>>) :
     pxyz \in Opt({<<1, 0, 0>>}), cxyz \in Opt({<<0, 1, 0>>}), xyz \in Opt({<<0, 0, 1>>})}
  \cup
  {SdfRecord(<<"base">>, <<"tip">>, <<TRUE>>, <<>>, <<<<1, 0, 0>>>>, <<<<1, 0, 0>>>>,
             <<>>, <<>>, <<>>, prpy, crpy, rpy) :
     prpy \in Opt({<<0, 0, 1>>}), crpy \in Opt({<<0, 0, 2>>}), rpy \in Opt({<<0, 0, 3>>})}

InitOffsets ==
  /\ sdf \in SdfOffsetFiles
  /\ ros_initialized = TRUE
  /\ loc = NoArgs
  /\ Constructed

SpecOffsets == InitOffsets /\ [][Next]_vars

---------------------------------------------------------------------------
(* The two formulas on their own, over a grid of arguments *)

Grid == {<<x, y, z>> : x \in -PosMax..PosMax, y \in -PosMax..PosMax, z \in -PosMax..PosMax}

MomentVals == {<<1, 0, 0>>, <<0, 1, 0>>, <<-1, 0, 2>>, <<1, -1, 0>>, <<2, 1, -1>>}

ForceArgs ==
  {[p_self |-> Pose(ps, q), m_self |-> ms, p_other |-> Pose(po, QIdentity), m_other |-> mo] :
     ps \in Grid, q \in 0..3, po \in {Zero, <<1, 0, 0>>, <<0, -1, 1>>},
     ms \in MomentVals, mo \in MomentVals}

InitForce ==
  /\ sdf = SdfRecord(<<>>, <<>>, <<>>, <<>>, <<>>, <<>>, <<>>, <<>>, <<>>, <<>>, <<>>, <<>>)
  /\ ros_initialized = FALSE
  /\ loc \in ForceArgs
  /\ Constructed

CallGetForceTorque ==
  /\ res.n_ft = 0
  /\ LET ft == GetForceTorque(loc.p_self, loc.m_self, loc.p_other, loc.m_other)
     IN res' = [res EXCEPT !.force_tmp = ft.force, !.torque_tmp = ft.torque, !.n_ft = 1]
  /\ UNCHANGED <<sdf, ros_initialized, plugin_vars, connect_count, subscribers, lock, pc,
                 simTime, loc, link_wrench, n_updates, wrench_msg, mfs_msg, pub, dtor>>

CallGetMFS ==
  /\ res.n_mfs = 0
  /\ res' = [res EXCEPT !.mfs_tmp = GetMFS(loc.p_self, loc.p_other, loc.m_other),
                        !.n_mfs = 1]
  /\ UNCHANGED <<sdf, ros_initialized, plugin_vars, connect_count, subscribers, lock, pc,
                 simTime, loc, link_wrench, n_updates, wrench_msg, mfs_msg, pub, dtor>>

NextForce ==
  \/ CallGetForceTorque
  \/ CallGetMFS

SpecForce == InitForce /\ [][NextForce]_vars

---------------------------------------------------------------------------
(* Properties *)

Coincident == loc.p_self.pos = loc.p_other.pos

\* C1: for coincident dipole positions GetForceTorque and GetMFS signal a
\* DomainError instead of returning: neither has returned a value for such
\* arguments, and no not-a-number force or torque has reached either body.
C1_CoincidentSignalsDomainError ==
  Coincident =>
    /\ res.n_ft = 0
    /\ res.n_mfs = 0
    /\ ~link_wrench.first.force.nan /\ ~link_wrench.first.torque.nan
    /\ ~link_wrench.second.force.nan /\ ~link_wrench.second.torque.nan

\* C2: with update rate > 0 two successive emissions are at least 1/rate
\* seconds of simulation time apart; with rate 0 the rate test never skips.
C2_EmissionsSpacedByPeriod ==
  /\ (update_rate > 0 /\ pub.count >= 2) =>
        (pub.last - pub.prev) * update_rate >= TicksPerSec
  /\ update_rate = 0 => ~RateSkips(update_rate, simTime, last_time)

\* C3: the subscriber counter is never negative, equals the number of
\* connected subscribers, and every publish() happened in a state with at
\* least one subscriber connected.
C3_CounterAndGatedEmission ==
  /\ connect_count >= 0
  /\ connect_count = subscribers
  /\ pub.count > 0 => pub.subscribers > 0

\* C4: every modification of connect_count is made by the callback-queue
\* thread holding the lock, and the simulation thread reads it in
\* PublishData only while holding the lock.
C4_CounterAccessUnderLock ==
  [][/\ connect_count' # connect_count => lock = "queue"
     /\ (pc = "PublishData" /\ pc' # pc /\ should_publish = "true") => lock = "sim"]_vars

\* C5: in every tick OnUpdate evaluates the force/torque formula once,
\* applies force and torque to the parent link and their negations to the
\* child link, and the applied forces and the applied torques sum to zero.
C5_EqualAndOppositeWrench ==
  n_updates > 0 =>
    /\ res.n_ft = 1
    /\ link_wrench.first.force = res.force_tmp
    /\ link_wrench.first.torque = res.torque_tmp
    /\ link_wrench.second.force = ValNeg(res.force_tmp)
    /\ link_wrench.second.torque = ValNeg(res.torque_tmp)
    /\ ValIsZero(ValAdd(link_wrench.first.force, link_wrench.second.force))
    /\ ValIsZero(ValAdd(link_wrench.first.torque, link_wrench.second.torque))

\* C6: for distinct positions the force GetForceTorque returns is the
\* negation of the force it returns with the two dipoles exchanged.
C6_ForceAntisymmetric ==
  (res.n_ft > 0 /\ ~Coincident) =>
    res.force_tmp =
      ValNeg(GetForceTorque(loc.p_other, loc.m_other, loc.p_self, loc.m_self).force)

C6_Witness ==
  /\ res.n_ft > 0
  /\ ~Coincident
  /\ res.force_tmp.num # Zero
  /\ loc.m_self # loc.m_other

AlignedEndToEnd ==
  /\ loc.m_self = <<1, 0, 0>>
  /\ loc.m_other = <<1, 0, 0>>
  /\ loc.p_self.pos = <<1, 0, 0>>
  /\ loc.p_other.pos = Zero

\* C7: for aligned end-to-end dipoles (moments (1,0,0), self at (1,0,0),
\* other at the origin) the force is (-6e-7, 0, 0) and the torque is zero.
C7_AlignedAttraction ==
  (res.n_ft > 0 /\ AlignedEndToEnd) =>
    /\ res.force_tmp = Val(<<-6, 0, 0>>, 1, 7)
    /\ res.torque_tmp = Val(Zero, 1, 5)

C7_Witness == res.n_ft > 0 /\ AlignedEndToEnd

\* Load's configuration errors, read off the plugin element
ConfigError(s) ==
  \/ s.parentBodyName = <<>>
  \/ s.childBodyName = <<>>
  \/ s.parentBodyName[1] \notin ModelLinks
  \/ s.childBodyName[1] \notin ModelLinks

\* C8: with a configuration error the update callback is never connected:
\* OnUpdate never runs, no force or torque reaches a link, nothing is published.
C8_ConfigErrorNeverActivates ==
  ConfigError(sdf) =>
    /\ ~update_connection
    /\ n_updates = 0
    /\ res.n_ft = 0
    /\ link_wrench.first = [force |-> ZeroVal, torque |-> ZeroVal]
    /\ link_wrench.second = [force |-> ZeroVal, torque |-> ZeroVal]
    /\ pub.count = 0

C8_Witness ==
  /\ ConfigError(sdf)
  /\ sdf.parentBodyName # <<>>
  /\ sdf.childBodyName # <<>>
  /\ phase = "loaded"
  /\ simTime > 1

\* C9: after Load each magnet's offset is the one configured for its own
\* side, identity where not configured.
C9_OffsetsPerSide ==
  (phase # "constructed" /\ ~ConfigError(sdf)) =>
    /\ mag.first.offset = Pose(SdfGet(sdf, "parentxyzOffset", Zero),
                               QuatFromEuler(SdfGet(sdf, "parentrpyOffset", Zero)))
    /\ mag.second.offset = Pose(SdfGet(sdf, "childxyzOffset", Zero),
                                QuatFromEuler(SdfGet(sdf, "childrpyOffset", Zero)))

\* C10: the destructor shuts down and deletes the node handle and joins the
\* callback-queue thread only if Load created the handle and started the thread.
C10_CleanupOnlyWhatLoadCreated ==
  (dtor.ran /\ dtor.cleanup) => (dtor.rosnode = "created" /\ dtor.thread)

===========================================================================
